---- MODULE Spec2Model ----
(***************************************************************************)
(* Data access gateway of the census database system: the direct           *)
(* connections of DirectOracleConnection, the pooled engine of             *)
(* OracleConnectionManager and the CensusService operations that run over  *)
(* them (src/app/database/oracle_connection.py, src/app/utils/db_service.py).*)
(***************************************************************************)
EXTENDS Integers, Sequences, FiniteSets, TLC

(* ------------------------------ bounds -------------------------------- *)

\* Concurrent callers of CensusService in Spec.
NumCallers == 1
\* Row identifiers 1..MaxId of the entity table.
MaxId == 1
\* The most records a stored procedure leaves in an output cursor.
MaxRecords == 2
\* The most individuals the seeded tables hold.
MaxRows == 14
\* Individuals inserted by other sessions while the searches run.
MaxInserts == 1

\* The pool settings of the engine (settings.ORACLE_POOL_SIZE,
\* ORACLE_MAX_OVERFLOW, ORACLE_POOL_TIMEOUT), bounded to a small pool.
ORACLE_POOL_SIZE == 1
ORACLE_MAX_OVERFLOW == 1
ORACLE_POOL_TIMEOUT == 2

PoolCapacity == ORACLE_POOL_SIZE + ORACLE_MAX_OVERFLOW
\* One client more than the pool holds connections.
NumClients == PoolCapacity + 1

Callers == 1..NumCallers
Clients == 1..NumClients
Procs == 1..(IF NumCallers > NumClients THEN NumCallers ELSE NumClients)
Ids == 1..MaxId
\* Connection identities: every process may hold one direct connection
\* while the pool holds PoolCapacity more.
ConnIds == 1..(PoolCapacity + Cardinality(Procs))
NoConn == 0

(* ----------------------------- operations ----------------------------- *)

CreateOps == {"create_geographical_info", "create_household", "create_individual",
              "create_housing", "create_economic_activity"}
UpdateOps == {"update_geographical_info", "update_household", "update_individual",
              "update_housing"}
DeleteOps == {"delete_geographical_info", "delete_household", "delete_individual",
              "delete_housing"}
ReportOps == {"get_household_demographics", "get_regional_statistics",
              "get_housing_conditions", "get_activity_log",
              "execute_procedure_with_cursor"}
\* Operations that run over DirectOracleConnection.get_connection.
ServiceOps == CreateOps \cup UpdateOps \cup DeleteOps \cup ReportOps
\* One operation of each shape of body.
ShapeOps == {"create_household", "update_household", "update_geographical_info",
             "delete_household", "delete_individual",
             "get_household_demographics", "execute_procedure_with_cursor"}
\* The first caller runs every operation, further callers one of each shape.
OpsOf(p) == IF p = 1 THEN ServiceOps ELSE ShapeOps
\* The output cursors of the first caller hold no record or MaxRecords
\* records, those of further callers none.
RecordsOf(p) == IF p = 1 THEN {0, MaxRecords} ELSE {0}
\* Operations that take their connection from the engine's QueuePool.
PooledOps == {"execute_raw_sql", "call_procedure", "get_database_session"}
Ops == ServiceOps \cup PooledOps
\* The ad-hoc reads of CensusService that filter by an optional id: each is
\* one call of execute_raw_sql.
IdReadOps == {"get_geographical_info", "get_households", "get_individuals"}
RawReadOps == IdReadOps \cup {"get_database_statistics"}
\* search_individuals calls execute_raw_sql twice: count query, data query.
ReadOps == RawReadOps \cup {"search_individuals"}
\* Operations whose statements run through execute_raw_sql.
RawSqlOps == ReadOps \cup {"execute_raw_sql"}

\* The stored procedure each operation names in callproc.
ProcName(o) ==
    CASE o = "create_geographical_info" -> "SP_INSERT_GEOGRAPHICAL_INFO"
      [] o = "update_geographical_info" -> "SP_UPDATE_GEOGRAPHICAL_INFO"
      [] o = "delete_geographical_info" -> "SP_DELETE_GEOGRAPHICAL_INFO"
      [] o = "create_household" -> "SP_INSERT_HOUSEHOLD"
      [] o = "update_household" -> "SP_UPDATE_HOUSEHOLD"
      [] o = "delete_household" -> "SP_DELETE_HOUSEHOLD"
      [] o = "create_individual" -> "SP_INSERT_INDIVIDUAL"
      [] o = "update_individual" -> "SP_UPDATE_INDIVIDUAL"
      [] o = "delete_individual" -> "SP_DELETE_INDIVIDUAL"
      [] o = "create_housing" -> "SP_INSERT_HOUSING"
      [] o = "update_housing" -> "SP_UPDATE_HOUSING"
      [] o = "delete_housing" -> "SP_DELETE_HOUSING"
      [] o = "create_economic_activity" -> "SP_INSERT_ECONOMIC_ACTIVITY"
      [] o = "get_household_demographics" -> "SP_GET_HOUSEHOLD_DEMOGRAPHICS"
      [] o = "get_regional_statistics" -> "SP_GET_REGIONAL_STATISTICS"
      [] o = "get_housing_conditions" -> "SP_GET_HOUSING_CONDITIONS"
      [] o = "get_activity_log" -> "SP_GET_ACTIVITY_LOGS"
      [] OTHER -> "procedure_name"

\* The output variable the operation binds as a procedure argument
\* (cursor.var): the generated id of a create, the success flag of
\* delete_individual; the other updates and deletes bind none.
OutVar(o) ==
    IF o \in CreateOps THEN "number"
    ELSE IF o = "delete_individual" THEN "bool"
    ELSE "none"

\* n input arguments.
Inputs(n) == [i \in 1..n |-> "in"]

\* The positional argument list each operation passes to callproc: input
\* values ("in"), a bound output variable ("var"), an output cursor
\* ("cursor").
CallArgs(o) ==
    CASE o = "create_geographical_info" -> Append(Inputs(13), "var")
      [] o = "create_household" -> Append(Inputs(8), "var")
      [] o = "create_individual" -> Append(Inputs(13), "var")
      [] o = "create_housing" -> Append(Inputs(10), "var")
      [] o = "create_economic_activity" -> Append(Inputs(9), "var")
      [] o = "update_geographical_info" -> Inputs(9)
      [] o = "update_household" -> Inputs(5)
      [] o = "update_individual" -> Inputs(10)
      [] o = "update_housing" -> Inputs(9)
      [] o = "delete_individual" -> Append(Inputs(1), "var")
      [] o \in DeleteOps -> Inputs(1)
      [] o = "get_activity_log" -> Append(Inputs(4), "cursor")
      [] OTHER -> Append(Inputs(1), "cursor")

\* Evaluating the argument list raises before callproc is reached:
\* update_geographical_info reads geo_data.sub_district and
\* geo_data.locality_name, which GeographicalInfoUpdate does not declare.
GeographicalInfoUpdateFields ==
    {"region_name", "district_name", "district_type", "detailed_address",
     "contact_phone_1", "contact_phone_2"}
ArgumentFields(o) ==
    IF o = "update_geographical_info"
    THEN {"region_name", "district_name", "district_type", "sub_district",
          "locality_name", "detailed_address", "contact_phone_1", "contact_phone_2"}
    ELSE {}
ArgumentError(o) ==
    o = "update_geographical_info"
    /\ ~(ArgumentFields(o) \subseteq GeographicalInfoUpdateFields)

\* (mutant) the creates return the id without committing.
CommitsOnSuccessMutant(o) ==
    o \in (UpdateOps \cup DeleteOps) \ {"delete_individual"}

\* The body calls connection.commit() after a callproc that returned.
CommitsOnSuccess(o) ==
    o \in (CreateOps \cup UpdateOps \cup DeleteOps) \ {"delete_individual"}

\* The class named by the body's own except clause, which logs and returns
\* False ("none": the body has no except clause).
ExceptClause(o) ==
    IF o = "delete_individual" THEN "DatabaseError"
    ELSE IF o \in UpdateOps \cup DeleteOps THEN "Exception"
    ELSE "none"

\* The body's except clause catches exception e.
Caught(o, e) ==
    /\ e # "none"
    /\ \/ ExceptClause(o) = "Exception"
       \/ ExceptClause(o) = e

\* The body closes its cursors in a finally clause.
ClosesCursor(o) == o # "delete_individual"


(* ------------------------------- state -------------------------------- *)

VARIABLES
    pc,         \* where each process stands in its operation
    op,         \* the operation it runs
    arg,        \* the row id an update or delete is called with (0: none)
    conn,       \* the connection bound to it (NoConn: none)
    exc,        \* the exception propagating in it ("none": none)
    ret,        \* the value the operation returned ("none": not returned)
    outv,       \* the value of the bound output variable (-1: unset); of a
                \* report: how many records its output cursor holds
    called,     \* how the stored procedure ended ("none": not called)
    raised,     \* the exception the body of the with block left with
    trace,      \* the calls made on connection, cursors and session, in order
                \* ("commit.failed": a commit that raised)
    tx,         \* its transaction: the uncommitted write and the state
    waited,     \* time spent waiting for a pooled connection
    kind,       \* every connection: "closed", "direct" or "pooled"
    idle,       \* the pooled connections waiting in the pool's queue
    overflow,   \* QueuePool's overflow counter, from -pool_size
    committed,  \* the committed rows of the entity table
    seq         \* the next value of the id sequence

vars == <<pc, op, arg, conn, exc, ret, outv, called, raised, trace, tx, waited,
          kind, idle, overflow, committed, seq>>
poolVars == <<idle, overflow>>
dbVars == <<committed, seq>>

NoWrite == <<>>
NoTx == [w |-> NoWrite, st |-> "none"]

Count(s, e) == Cardinality({i \in DOMAIN s : s[i] = e})
\* The position of the first e in s (0: none).
First(s, e) ==
    IF \E i \in DOMAIN s : s[i] = e
    THEN CHOOSE i \in DOMAIN s : s[i] = e /\ \A j \in DOMAIN s : s[j] = e => i <= j
    ELSE 0
\* The position of the last e in s (0: none).
Last(s, e) ==
    IF \E i \in DOMAIN s : s[i] = e
    THEN CHOOSE i \in DOMAIN s : s[i] = e /\ \A j \in DOMAIN s : s[j] = e => j <= i
    ELSE 0

Init ==
    /\ pc = [p \in Procs |-> "idle"]
    /\ op = [p \in Procs |-> "none"]
    /\ arg = [p \in Procs |-> 0]
    /\ conn = [p \in Procs |-> NoConn]
    /\ exc = [p \in Procs |-> "none"]
    /\ ret = [p \in Procs |-> "none"]
    /\ outv = [p \in Procs |-> -1]
    /\ called = [p \in Procs |-> "none"]
    /\ raised = [p \in Procs |-> "none"]
    /\ trace = [p \in Procs |-> <<>>]
    /\ tx = [p \in Procs |-> NoTx]
    /\ waited = [p \in Procs |-> 0]
    /\ kind = [c \in ConnIds |-> "closed"]
    /\ idle = {}
    /\ overflow = 0 - ORACLE_POOL_SIZE
    \* rows 1..k exist already and the sequence stands behind them
    /\ \E k \in 0..MaxId :
          /\ committed = [i \in Ids |-> IF i <= k THEN "new" ELSE "absent"]
          /\ seq = k + 1

(* ------------------------- the database server ------------------------ *)

\* The rows after a transaction's write is made durable.
Apply(db, w) == IF w = NoWrite THEN db ELSE [db EXCEPT ![w[1]] = w[2]]

\* The GeographicalInfoCreate objects a caller passes, by number, and their
\* region_name and district_name.
AccraMetro == 0
KumasiMetro == -2
GeoData == {AccraMetro, KumasiMetro}
GeoRegion(d) == IF d = KumasiMetro THEN "Ashanti" ELSE "Greater Accra"
GeoDistrict(d) == IF d = KumasiMetro THEN "Kumasi Metro" ELSE "Accra Metro"

\* (mutant) the district passed first.
GeoArgsMutant(d) == <<GeoDistrict(d), GeoRegion(d)>>

\* The first two values create_geographical_info passes to callproc:
\* geo_data.region_name, geo_data.district_name.
GeoArgs(d) == <<GeoRegion(d), GeoDistrict(d)>>

\* The row SP_INSERT_GEOGRAPHICAL_INFO inserts when its first two
\* arguments are v: "new" is the row of Greater Accra, Accra Metro.
GeoRow(v) ==
    CASE v = <<"Greater Accra", "Accra Metro">> -> "new"
      [] v = <<"Ashanti", "Kumasi Metro">> -> "new.kumasi"
      [] OTHER -> "new.other"

\* The region_name and district_name columns of a row.
RegionOf(row) ==
    CASE row = "new" -> "Greater Accra"
      [] row = "new.kumasi" -> "Ashanti"
      [] OTHER -> "other"
DistrictOf(row) ==
    CASE row = "new" -> "Accra Metro"
      [] row = "new.kumasi" -> "Kumasi Metro"
      [] OTHER -> "other"

\* The row a create inserts.
Inserted(o, a) == IF o = "create_geographical_info" THEN GeoRow(GeoArgs(a)) ELSE "new"

\* The row the stored procedure of operation o writes when it runs with
\* argument a against rows db and sequence value s.
ProcWrite(o, a, db, s) ==
    IF o \in CreateOps THEN <<s, Inserted(o, a)>>
    ELSE IF o \in UpdateOps /\ db[a] # "absent" THEN <<a, "updated">>
    ELSE IF o \in DeleteOps /\ db[a] # "absent" THEN <<a, "absent">>
    ELSE NoWrite

\* What the stored procedure stores in the bound output variable.
ProcOut(o, a, db, s) ==
    IF OutVar(o) = "number" THEN s
    ELSE IF OutVar(o) = "bool" THEN (IF db[a] # "absent" THEN 1 ELSE 0)
    ELSE -1

\* Another open transaction holds the lock of the row w writes.
Locked(p, w) ==
    /\ w # NoWrite
    /\ \E q \in Procs \ {p} :
          tx[q].st = "open" /\ tx[q].w # NoWrite /\ tx[q].w[1] = w[1]

\* The smallest connection identity not in use.
FreshConn == CHOOSE c \in ConnIds :
    kind[c] = "closed" /\ \A d \in ConnIds : kind[d] = "closed" => c <= d

(* ------------- operations over DirectOracleConnection ----------------- *)

\* A call of operation o enters get_connection up to its yield:
\* oracledb.connect(**ORACLE_CONFIG) returns a new connection or raises.
Connect(p, o, a) ==
    /\ pc[p] = "idle"
    /\ o \in ServiceOps
    /\ (o \in UpdateOps \cup DeleteOps) <=> (a \in Ids)
    /\ op' = [op EXCEPT ![p] = o]
    /\ arg' = [arg EXCEPT ![p] = a]
    /\ \E ok \in BOOLEAN :
        IF ok
        THEN /\ conn' = [conn EXCEPT ![p] = FreshConn]
             /\ kind' = [kind EXCEPT ![FreshConn] = "direct"]
             /\ trace' = [trace EXCEPT ![p] = <<"connect">>]
             /\ tx' = [tx EXCEPT ![p] = [w |-> NoWrite, st |-> "open"]]
             /\ pc' = [pc EXCEPT ![p] = "body"]
             /\ UNCHANGED <<exc, raised>>
        ELSE /\ exc' = [exc EXCEPT ![p] = "DatabaseError"]
             /\ raised' = [raised EXCEPT ![p] = "DatabaseError"]
             /\ pc' = [pc EXCEPT ![p] = "exit"]
             /\ UNCHANGED <<conn, kind, trace, tx>>
    /\ UNCHANGED <<ret, outv, called, waited, poolVars, dbVars>>

\* The cursors the body opens.
OpenCursors(o) ==
    IF o \in ReportOps THEN <<"cursor", "result_cursor">> ELSE <<"cursor">>

\* The body from connection.cursor() through cursor.callproc(...): the
\* argument list is evaluated, then the procedure runs and returns ("ok"),
\* raises before writing ("fail") or raises after writing ("partial").
\* K: how many records the procedure may leave in the output cursor.
Call(p, K) ==
    /\ pc[p] = "body"
    /\ op[p] \in ServiceOps
    /\ IF ArgumentError(op[p])
       THEN /\ trace' = [trace EXCEPT ![p] = @ \o OpenCursors(op[p])]
            /\ exc' = [exc EXCEPT ![p] = "AttributeError"]
            /\ UNCHANGED <<tx, outv, called, seq>>
       ELSE \E r \in {"ok", "fail", "partial"}, k \in K :
            LET w == IF r = "fail" THEN NoWrite
                     ELSE ProcWrite(op[p], arg[p], committed, seq)
            IN  /\ ~Locked(p, w)
                /\ (op[p] \in CreateOps /\ r # "fail") => seq <= MaxId
                /\ r = "partial" => w # NoWrite
                /\ (op[p] \in ReportOps /\ r = "ok") \/ k = 0
                /\ trace' = [trace EXCEPT ![p] = (@ \o OpenCursors(op[p])) \o <<"callproc">>]
                /\ tx' = [tx EXCEPT ![p].w = w]
                /\ seq' = IF op[p] \in CreateOps /\ r # "fail" THEN seq + 1 ELSE seq
                /\ called' = [called EXCEPT ![p] = r]
                /\ outv' = [outv EXCEPT ![p] =
                              IF r # "ok" THEN -1
                              ELSE IF op[p] \in ReportOps THEN k
                              ELSE ProcOut(op[p], arg[p], committed, seq)]
                /\ exc' = [exc EXCEPT ![p] = IF r = "ok" THEN "none" ELSE "DatabaseError"]
    /\ pc' = [pc EXCEPT ![p] = "complete"]
    /\ UNCHANGED <<op, arg, conn, ret, raised, waited, kind, poolVars, committed>>

\* (mutant) the commit moved into the finally clause: it runs whether or
\* not the procedure raised.
CommitsAfterMutant(o, e) == CommitsOnSuccess(o)

\* The body calls connection.commit(): after a callproc that returned, in
\* the operations that commit at all.
CommitsAfter(o, e) == e = "none" /\ CommitsOnSuccess(o)

\* The cursors the body closes on its way out: the finally clause of the
\* service operations; execute_procedure_with_cursor closes its output
\* cursor only after a complete drain; delete_individual closes none.
CloseCursors(o, failed) ==
    IF ~ClosesCursor(o) THEN <<>>
    ELSE IF o = "execute_procedure_with_cursor"
    THEN (IF failed THEN <<"cursor.close">> ELSE <<"result_cursor.close", "cursor.close">>)
    ELSE IF o \in ReportOps THEN <<"result_cursor.close", "cursor.close">>
    ELSE <<"cursor.close">>

\* The value a body returns when nothing was raised in it: the value of
\* the output variable (getvalue), the drained rows, or True.
ReturnValue(o, out) ==
    IF o \in CreateOps THEN "id"
    ELSE IF o \in ReportOps THEN "rows"
    ELSE IF o = "delete_individual" THEN (IF out = 1 THEN "True" ELSE "False")
    ELSE "True"

\* The records of an output cursor, in cursor order.
RecordNames == <<"record.1", "record.2", "record.3", "record.4">>
IsRecord(e) == \E i \in DOMAIN RecordNames : RecordNames[i] = e

\* The loop over the output cursor appends each row to results, in cursor
\* order: the rows appended when the loop stops after j rows.
Drain(j) == SubSeq(RecordNames, 1, j)

\* (mutant) a failure of the fetch ends the loop quietly.
DrainFailureMutant(ok) == "none"

\* The loop over the output cursor raises what the fetch raises.
DrainFailure(ok) == IF ok THEN "none" ELSE "DatabaseError"

\* The rest of the body after callproc: commit and getvalue, or the drain
\* of the output cursor; the return, the body's own except clause and its
\* finally clause.  ok: the commit (or the drain) succeeds; j: the rows the
\* drain appended before it ended.
Complete(p) ==
    /\ pc[p] = "complete"
    /\ op[p] \in ServiceOps
    /\ \E ok \in BOOLEAN, j \in 0..MaxRecords :
        LET o == op[p]
            commits == CommitsAfter(o, exc[p])
            drains == exc[p] = "none" /\ o \in ReportOps
            \* the exception at the end of the try block
            thrown == IF exc[p] # "none" THEN exc[p]
                      ELSE IF commits /\ ~ok THEN "DatabaseError"
                      ELSE IF drains THEN DrainFailure(ok)
                      ELSE "none"
            reads == thrown = "none" /\ OutVar(o) # "none"
            left == IF Caught(o, thrown) THEN "none" ELSE thrown
        IN  /\ (commits \/ drains) \/ ok
            /\ IF drains THEN j <= outv[p] /\ (ok => j = outv[p]) ELSE j = 0
            /\ trace' = [trace EXCEPT ![p] =
                  (((@ \o (IF ~commits THEN <<>>
                           ELSE IF ok THEN <<"commit">> ELSE <<"commit.failed">>))
                      \o (IF reads THEN <<"getvalue">> ELSE <<>>))
                      \o Drain(j))
                     \o CloseCursors(o, thrown # "none")]
            /\ IF commits /\ ok
               THEN /\ committed' = Apply(committed, tx[p].w)
                    /\ tx' = [tx EXCEPT ![p].st = "committed"]
               ELSE UNCHANGED <<committed, tx>>
            /\ exc' = [exc EXCEPT ![p] = left]
            /\ raised' = [raised EXCEPT ![p] = left]
            /\ ret' = [ret EXCEPT ![p] =
                  IF thrown = "none" THEN ReturnValue(o, outv[p])
                  ELSE IF Caught(o, thrown) THEN "False" ELSE "none"]
    /\ pc' = [pc EXCEPT ![p] = "exit"]
    /\ UNCHANGED <<op, arg, conn, outv, called, waited, kind, poolVars, seq>>

\* get_connection's except clause calls connection.rollback().
RollsBack(held, e) == held /\ e # "none"

\* (mutant) the close moved out of the finally clause: it runs only when
\* nothing was raised.
ClosesMutant(held, e) == held /\ e = "none"

\* get_connection's finally clause calls connection.close().
Closes(held, e) == held

\* get_connection after its yield: the except clause rolls back and
\* re-raises, the finally clause closes the connection; the server discards
\* whatever a closed connection left uncommitted.
Exit(p) ==
    /\ pc[p] = "exit"
    /\ op[p] \in ServiceOps
    /\ LET held == conn[p] # NoConn
           rolls == RollsBack(held, exc[p])
           closes == Closes(held, exc[p])
       IN  /\ trace' = [trace EXCEPT ![p] =
                 (@ \o (IF rolls THEN <<"rollback">> ELSE <<>>))
                    \o (IF closes THEN <<"close">> ELSE <<>>)]
           /\ tx' = [tx EXCEPT ![p].st =
                 IF (rolls \/ closes) /\ @ = "open" THEN "rolledback" ELSE @]
           /\ kind' = IF closes THEN [kind EXCEPT ![conn[p]] = "closed"] ELSE kind
           /\ conn' = [conn EXCEPT ![p] = NoConn]
    /\ pc' = [pc EXCEPT ![p] = "done"]
    /\ UNCHANGED <<op, arg, exc, ret, outv, called, raised, waited, poolVars, dbVars>>

\* The caller has the outcome; the process is free for the next call.
Reset(p) ==
    /\ pc[p] = "done"
    /\ pc' = [pc EXCEPT ![p] = "idle"]
    /\ op' = [op EXCEPT ![p] = "none"]
    /\ arg' = [arg EXCEPT ![p] = 0]
    /\ exc' = [exc EXCEPT ![p] = "none"]
    /\ ret' = [ret EXCEPT ![p] = "none"]
    /\ outv' = [outv EXCEPT ![p] = -1]
    /\ called' = [called EXCEPT ![p] = "none"]
    /\ raised' = [raised EXCEPT ![p] = "none"]
    /\ trace' = [trace EXCEPT ![p] = <<>>]
    /\ tx' = [tx EXCEPT ![p] = NoTx]
    /\ waited' = [waited EXCEPT ![p] = 0]
    /\ UNCHANGED <<conn, kind, poolVars, dbVars>>

(* ------------------- operations over the engine's pool ---------------- *)

\* (mutant) the overflow test off by one.
MustWaitMutant == overflow > ORACLE_MAX_OVERFLOW

\* QueuePool hands out no new connection: its overflow counter stands at
\* max_overflow, so a checkout waits for the queue.
MustWait == overflow >= ORACLE_MAX_OVERFLOW

\* All pool_size + max_overflow connections are checked out.
Saturated == idle = {} /\ MustWait

\* (mutant) the connection handed out stays in the queue.
TakeIdleMutant(c) == idle

\* The queue after connection c is taken from it.
TakeIdle(c) == idle \ {c}

\* The connection a checkout takes from the queue.
NextIdle == CHOOSE c \in idle : \A d \in idle : c <= d

\* What a session-based operation does before its first statement:
\* SessionLocal() binds no connection yet.
OpenSession(o) == IF o = "execute_raw_sql" THEN <<>> ELSE <<"session">>

\* (mutant) the except clause dropped: commit whatever the body did.
SessionEndMutant(e) == "commit"

\* What get_session_context calls on the session once its body has left
\* with exception e ("none": it returned).
SessionEnd(e) == IF e = "none" THEN "commit" ELSE "rollback"

\* The calls on the way out of a pooled operation whose body left with
\* exception e; held: a connection is bound; ok: the commit succeeds.
\*   execute_raw_sql: the with block closes the connection, the except
\*     clause logs and re-raises;
\*   get_session_context (call_procedure): commit after a body that
\*     returned, rollback and re-raise after one that raised (a failed commit
\*     included), session.close() in the finally clause; the session gives
\*     its connection back when the transaction ends;
\*   get_database_session: session.close() in the finally clause.
ExitCalls(o, held, e, ok) ==
    LET release == IF held THEN <<"release">> ELSE <<>>
    IN  IF o \in RawSqlOps THEN release
        ELSE IF o = "get_database_session" THEN <<"session.close">> \o release
        ELSE IF SessionEnd(e) = "commit"
        THEN (IF ok THEN (<<"commit">> \o release) \o <<"session.close">>
              ELSE (<<"commit.failed", "rollback">> \o release) \o <<"session.close">>)
        ELSE (<<"rollback">> \o release) \o <<"session.close">>

\* The pool takes connection c back: into the queue, or, the queue being
\* full, closed with the overflow counted down.
PoolReturn(c) ==
    IF Cardinality(idle) < ORACLE_POOL_SIZE
    THEN /\ idle' = idle \cup {c}
         /\ UNCHANGED <<kind, overflow>>
    ELSE /\ kind' = [kind EXCEPT ![c] = "closed"]
         /\ overflow' = overflow - 1
         /\ idle' = idle

\* The way out of the pooled operation of p, whose body left with
\* exception e after the calls in t.
PooledLeave(p, o, t, e, ok) ==
    LET held == conn[p] # NoConn
        calls == ExitCalls(o, held, e, ok)
        released == Count(calls, "release") > 0
        commitFailed == Count(calls, "commit.failed") > 0
    IN  /\ trace' = [trace EXCEPT ![p] = t \o calls]
        /\ IF released THEN PoolReturn(conn[p]) ELSE UNCHANGED <<kind, idle, overflow>>
        /\ conn' = [conn EXCEPT ![p] = IF released THEN NoConn ELSE @]
        /\ tx' = [tx EXCEPT ![p].st =
                    IF @ # "open" THEN @
                    ELSE IF Count(calls, "commit") > 0 THEN "committed"
                    ELSE "rolledback"]
        /\ raised' = [raised EXCEPT ![p] = e]
        /\ exc' = [exc EXCEPT ![p] = IF commitFailed THEN "DatabaseError" ELSE e]

\* The pooled operation of p ends there.
PooledExit(p, o, t, e, ok) ==
    /\ PooledLeave(p, o, t, e, ok)
    /\ pc' = [pc EXCEPT ![p] = "done"]

\* The operation asks the pool for a connection (engine.connect(), or the
\* first statement of a session): one is taken from the queue, or created
\* while the overflow allows, or the caller starts to wait.
PoolCheckout(p, o) ==
    /\ pc[p] = "idle"
    /\ o \in PooledOps
    /\ op' = [op EXCEPT ![p] = o]
    /\ IF idle # {}
       THEN /\ conn' = [conn EXCEPT ![p] = NextIdle]
            /\ idle' = TakeIdle(NextIdle)
            /\ trace' = [trace EXCEPT ![p] = OpenSession(o) \o <<"checkout">>]
            /\ tx' = [tx EXCEPT ![p] = [w |-> NoWrite, st |-> "open"]]
            /\ pc' = [pc EXCEPT ![p] = "body"]
            /\ UNCHANGED <<exc, raised, kind, overflow>>
       ELSE IF MustWait
       THEN /\ pc' = [pc EXCEPT ![p] = "wait"]
            /\ trace' = [trace EXCEPT ![p] = OpenSession(o)]
            /\ UNCHANGED <<conn, exc, raised, tx, kind, idle, overflow>>
       ELSE \E ok \in BOOLEAN :
            IF ok
            THEN /\ overflow' = overflow + 1
                 /\ conn' = [conn EXCEPT ![p] = FreshConn]
                 /\ kind' = [kind EXCEPT ![FreshConn] = "pooled"]
                 /\ trace' = [trace EXCEPT ![p] = OpenSession(o) \o <<"checkout">>]
                 /\ tx' = [tx EXCEPT ![p] = [w |-> NoWrite, st |-> "open"]]
                 /\ pc' = [pc EXCEPT ![p] = "body"]
                 /\ UNCHANGED <<exc, raised, idle>>
            ELSE \* the new connection fails: the overflow is given back
                 PooledExit(p, o, OpenSession(o), "DatabaseError", TRUE)
    /\ UNCHANGED <<arg, ret, outv, called, waited, dbVars>>

\* (mutant) the wait gives up at once.
TimedOutMutant(w) == TRUE

\* A wait of w has used up pool_timeout.
TimedOut(w) == w = ORACLE_POOL_TIMEOUT

\* Time passes for a caller waiting on the empty queue.
PoolWait(p) ==
    /\ pc[p] = "wait"
    /\ idle = {}
    /\ ~TimedOut(waited[p])
    /\ waited' = [waited EXCEPT ![p] = @ + 1]
    /\ UNCHANGED <<pc, op, arg, conn, exc, ret, outv, called, raised, trace, tx,
                   kind, poolVars, dbVars>>

\* A connection was returned to the queue: a waiting caller takes it.
PoolWake(p) ==
    /\ pc[p] = "wait"
    /\ idle # {}
    /\ conn' = [conn EXCEPT ![p] = NextIdle]
    /\ idle' = TakeIdle(NextIdle)
    /\ trace' = [trace EXCEPT ![p] = Append(@, "checkout")]
    /\ tx' = [tx EXCEPT ![p] = [w |-> NoWrite, st |-> "open"]]
    /\ waited' = [waited EXCEPT ![p] = 0]
    /\ pc' = [pc EXCEPT ![p] = "body"]
    /\ UNCHANGED <<op, arg, exc, ret, outv, called, raised, kind, overflow, dbVars>>

\* pool_timeout has elapsed on the empty queue: the checkout raises
\* sqlalchemy's TimeoutError, which the operation lets through.
PoolTimeout(p) ==
    /\ pc[p] = "wait"
    /\ idle = {}
    /\ TimedOut(waited[p])
    /\ PooledExit(p, op[p], trace[p], "TimeoutError", TRUE)
    /\ UNCHANGED <<op, arg, ret, outv, called, waited, dbVars>>

\* (mutant) a statement that failed is executed once more.
ExecuteMutant(ok) == IF ok THEN <<"execute">> ELSE <<"execute", "execute">>

\* connection.execute(text(sql), params): the statement is sent once,
\* whether it succeeds (ok) or raises.
Execute(ok) == <<"execute">>

\* The statement runs on the bound connection and returns rows or raises;
\* then the operation leaves.  ok: the statement succeeds; cok: the commit.
PooledBody(p) ==
    /\ pc[p] = "body"
    /\ op[p] \in PooledOps
    /\ \E ok, cok \in BOOLEAN :
        /\ cok \/ (op[p] = "call_procedure" /\ ok)
        /\ ret' = [ret EXCEPT ![p] = IF ok /\ cok THEN "rows" ELSE "none"]
        /\ PooledExit(p, op[p], trace[p] \o Execute(ok),
                      IF ok THEN "none" ELSE "DatabaseError", cok)
    /\ UNCHANGED <<op, arg, outv, called, waited, dbVars>>

(* --------------- ad-hoc reads over execute_raw_sql -------------------- *)

\* An id argument left out (None).
NoId == -1
\* The values a caller passes for an optional id.
IdArgs == Ids \cup {0, NoId}

\* The default page of PaginationParams.
DefaultPage == 1
DefaultSize == 20

\* The joined relation the search reads: the rows the tables are seeded
\* with, and behind them the individuals created since (the i-th created
\* one as row MaxRows + i).
SeedRows == 1..MaxRows
Present(db) == SeedRows \cup {MaxRows + i : i \in {j \in Ids : db[j] # "absent"}}

\* The columns of a row of INDIVIDUAL joined to HOUSEHOLD and
\* GEOGRAPHICAL_INFO: twelve of the individuals are between 18 and 65, the
\* others are younger or older.
Age(i) == IF i = 5 THEN 10 ELSE IF i = 10 \/ i > 14 THEN 70 ELSE 20 + i
RegionName(i) == IF i % 2 = 1 THEN "A" ELSE "B"
DistrictName(i) == IF i % 3 = 0 THEN "E" ELSE "D"
SexOf(i) == IF i % 4 < 2 THEN "M" ELSE "F"
MaritalStatus(i) == IF i % 5 = 0 THEN "Married" ELSE "Single"
EducationLevel(i) == IF i % 7 = 0 THEN "Tertiary" ELSE "Primary"

\* The names of the rows in a result, by id.
RowNames ==
    <<"row.1", "row.2", "row.3", "row.4", "row.5", "row.6", "row.7", "row.8",
      "row.9", "row.10", "row.11", "row.12", "row.13", "row.14", "row.15",
      "row.16", "row.17", "row.18", "row.19", "row.20">>
IsRow(e) == \E i \in DOMAIN RowNames : RowNames[i] = e
\* The id of the row named e.
IdOf(e) == CHOOSE i \in DOMAIN RowNames : RowNames[i] = e

(* search_individuals: filters, WHERE clause, bound parameters *)

\* The fields of SearchFilters in the order search_individuals tests them.
\* A field holds None (<<>>) or a value (<<v>>).
FilterFields == <<"region_name", "district_name", "sex", "min_age", "max_age",
                  "marital_status", "education_level">>
FieldSet == {FilterFields[i] : i \in DOMAIN FilterFields}
AgeFields == {"min_age", "max_age"}
NoFilter == [f \in FieldSet |-> <<>>]

\* (mutant) every field is tested by `is not None`.
FieldTestMutant(f) == "is not None"

\* How search_individuals decides that a field is there: `if
\* filters.region_name:` for the strings and the enum, `if filters.min_age
\* is not None:` for the two ages.
FieldTest(f) == IF f \in AgeFields THEN "is not None" ELSE "truthy"

\* search_individuals appends a condition for field f holding v.
HasCondition(f, v) ==
    /\ v # <<>>
    /\ FieldTest(f) = "truthy" => v[1] # ""

\* The condition appended for a field; its value appears only as a bind
\* name.
Condition(f) ==
    CASE f = "region_name" -> "g.region_name = :region_name"
      [] f = "district_name" -> "g.district_name = :district_name"
      [] f = "sex" -> "i.sex = :sex"
      [] f = "min_age" -> "i.age >= :min_age"
      [] f = "max_age" -> "i.age <= :max_age"
      [] f = "marital_status" -> "i.marital_status = :marital_status"
      [] f = "education_level" -> "i.highest_education_level = :education_level"

\* The fields of filters F that get a condition, in the order of the code.
ConditionFields(F) == SelectSeq(FilterFields, LAMBDA f : HasCondition(f, F[f]))

\* where_conditions.
WhereConditions(F) ==
    [i \in DOMAIN ConditionFields(F) |-> Condition(ConditionFields(F)[i])]

\* (mutant) no condition at all gives a predicate no row satisfies.
WhereClauseMutant(conds) == IF conds = <<>> THEN <<"1=0">> ELSE conds

\* where_clause: the conditions joined by AND (here: the list of the
\* conjuncts), or 1=1 when there is none.
WhereClause(conds) == IF conds = <<>> THEN <<"1=1">> ELSE conds

\* params as the count query gets them: one bound value per condition.
FilterParams(F) ==
    [f \in {g \in FieldSet : HasCondition(g, F[g])} |-> F[f][1]]

\* Row i satisfies conjunct c under the bound values b.
Satisfies(i, c, b) ==
    CASE c = "1=1" -> TRUE
      [] c = "g.region_name = :region_name" -> RegionName(i) = b["region_name"]
      [] c = "g.district_name = :district_name" -> DistrictName(i) = b["district_name"]
      [] c = "i.sex = :sex" -> SexOf(i) = b["sex"]
      [] c = "i.age >= :min_age" -> Age(i) >= b["min_age"]
      [] c = "i.age <= :max_age" -> Age(i) <= b["max_age"]
      [] c = "i.marital_status = :marital_status" -> MaritalStatus(i) = b["marital_status"]
      [] c = "i.highest_education_level = :education_level" ->
            EducationLevel(i) = b["education_level"]
      [] OTHER -> FALSE

\* The rows of M a WHERE clause selects under the bound values b.
Select(M, where, b) ==
    {i \in M : \A k \in DOMAIN where : Satisfies(i, where[k], b)}

\* How a read decides that its id argument is there: get_geographical_info
\* and get_households by `if geo_id:`, get_individuals by
\* `if individual_id is not None:`.
IdTest(o) == IF o = "get_individuals" THEN "is not None" ELSE "truthy"

\* The read adds the condition `id = :id` to its statement.
HasIdCondition(o, a) ==
    /\ o \in IdReadOps
    /\ a # NoId
    /\ IdTest(o) = "truthy" => a # 0

\* The text an id read adds to its statement for the id: the value appears
\* only as a bind name.
IdSql(o, a) == IF HasIdCondition(o, a) THEN <<"id = :id">> ELSE <<>>

\* The rows the statement of an id read selects.
IdRows(o, a, db) ==
    {i \in Ids : db[i] # "absent" /\ (HasIdCondition(o, a) => i = a)}

\* (mutant) the count query counts every row of the joined relation.
CountSqlMutant(F) == <<"1=1">>

\* The predicate of the count query: count_sql interpolates where_clause.
CountSql(F) == WhereClause(WhereConditions(F))

\* The predicate of the inner select of the data query: data_sql
\* interpolates the same where_clause.
DataSql(F) == WhereClause(WhereConditions(F))

\* (mutant) ROW_NUMBER() ranks by descending id.
RowNumberMutant(i, M) == Cardinality({j \in M : j >= i})

\* ROW_NUMBER() OVER (ORDER BY i.individual_id) of row i among rows M.
RowNumber(i, M) == Cardinality({j \in M : j <= i})

\* (mutant) the offset of page p taken as p * size.
OffsetMutant(page, size) == page * size

\* PaginationParams.offset.
Offset(page, size) == (page - 1) * size

\* params as the data query gets them: the filter values and the two row
\* bounds added after the count query has run.
StartRow(page, size) == Offset(page, size) + 1
EndRow(page, size) == Offset(page, size) + size
DataParams(F, page, size) ==
    [k \in DOMAIN FilterParams(F) \cup {"start_row", "end_row"} |->
        IF k = "start_row" THEN StartRow(page, size)
        ELSE IF k = "end_row" THEN EndRow(page, size)
        ELSE FilterParams(F)[k]]

\* (mutant) the upper row bound left out of the window.
BetweenMutant(M, lo, hi) == {i \in M : RowNumber(i, M) >= lo /\ RowNumber(i, M) < hi}

\* The rows of M with rn BETWEEN lo AND hi.
Between(M, lo, hi) == {i \in M : RowNumber(i, M) >= lo /\ RowNumber(i, M) <= hi}

\* What the count query returns over rows T.
CountQuery(F, T) == Cardinality(Select(T, CountSql(F), FilterParams(F)))

\* What the data query selects over rows T.
DataQuery(F, page, size, T) ==
    LET b == DataParams(F, page, size)
    IN  Between(Select(T, DataSql(F), b), b["start_row"], b["end_row"])

\* The rows of S by ascending id.
Ascending(S) ==
    [k \in 1..Cardinality(S) |-> CHOOSE i \in S : Cardinality({j \in S : j <= i}) = k]

\* The arguments of a call of search_individuals: the entry point it comes
\* from, the filters, the page and the size.
SearchCall(e, F, page, size) == [entry |-> e, filters |-> F, page |-> page, size |-> size]
DefaultSearch == SearchCall("route", NoFilter, DefaultPage, DefaultSize)

\* The entry points of a search: the HTTP route, the CLI command and the
\* dashboard form.
Entries == {"route", "cli", "dashboard"}

\* (mutant) PaginationParams with page: ge=0.
PaginationParamsValidMutant(page, size) == page >= 0 /\ size >= 1 /\ size <= 100

\* PaginationParams: page ge=1, size ge=1 and le=100.
PaginationParamsValid(page, size) == page >= 1 /\ size >= 1 /\ size <= 100

\* The route's own Query(1, ge=1) and Query(20, ge=1, le=100).
RouteAccepts(page, size) == page >= 1 /\ size >= 1 /\ size <= 100

\* The ranges of the dashboard's two number inputs: no other value can be
\* entered.
WidgetRange(page, size) == page >= 1 /\ size >= 1 /\ size <= 100

\* What an entry point can be given as filters: the dashboard has no
\* education field and its two age inputs always hold a number.
CanEnter(e, F, page, size) ==
    e = "dashboard" =>
        /\ WidgetRange(page, size)
        /\ F["education_level"] = <<>>
        /\ F["min_age"] # <<>>
        /\ F["max_age"] # <<>>

\* The SearchFilters object an entry point builds: the dashboard passes
\* `region_name or None` for its text and select fields.
BuildFilters(e, F) ==
    IF e # "dashboard" THEN F
    ELSE [f \in FieldSet |->
            IF f \in AgeFields \/ F[f] = <<>> THEN F[f]
            ELSE IF F[f][1] = "" THEN <<>> ELSE F[f]]

\* The page passes the validation of the entry point, so that
\* search_individuals is called.
Accepted(a) ==
    /\ a.entry = "route" => RouteAccepts(a.page, a.size)
    /\ PaginationParamsValid(a.page, a.size)

\* What the caller gets when the page is refused: the route answers with
\* a request validation error, PaginationParams raises ValidationError.
Refusal(a) ==
    IF a.entry = "route" /\ ~RouteAccepts(a.page, a.size)
    THEN "RequestValidationError"
    ELSE "ValidationError"

\* (mutant) the page count by floor division.
PageCountMutant(total, size) == total \div size

\* The page count the route and the CLI derive:
\* (total_count + size - 1) // size.
PageCount(total, size) == (total + size - 1) \div size

\* The place of row i in the ORDER BY of operation o: the search orders
\* by id, get_individuals by descending id, get_geographical_info and
\* get_households by region and district (and then by id).
OrderKey(o, i) ==
    IF o = "get_individuals" THEN 0 - i
    ELSE IF o = "search_individuals" THEN i
    ELSE (IF RegionName(i) = "A" THEN 0 ELSE 1000)
         + (IF DistrictName(i) = "D" THEN 0 ELSE 100) + i

\* The rows of S in the order of operation o.
Ordered(o, S) ==
    IF o = "search_individuals" THEN Ascending(S)
    ELSE [k \in 1..Cardinality(S) |->
             CHOOSE i \in S :
                 Cardinality({j \in S : OrderKey(o, j) <= OrderKey(o, i)}) = k]

\* The records fetchall returns for an operation's statement.
Rows(o, a, db) ==
    LET S == IF o = "search_individuals"
             THEN DataQuery(a.filters, a.page, a.size, Present(db))
             ELSE IF o \in IdReadOps THEN IdRows(o, a, db)
             ELSE {}
    IN  [i \in 1..Cardinality(S) |-> RowNames[Ordered(o, S)[i]]]

\* A read enters execute_raw_sql: engine.connect() asks the pool for a
\* connection.  search_individuals does so a second time, for its data
\* query, after its count query has returned.
ReadCheckout(p, o, a) ==
    /\ \/ /\ pc[p] = "idle"
          /\ o \in ReadOps
          /\ IF o \in IdReadOps THEN a \in IdArgs
             ELSE IF o = "search_individuals" THEN Accepted(a)
             ELSE a = NoId
       \/ /\ pc[p] = "counted"
          /\ o = op[p]
          /\ a = arg[p]
    /\ op' = [op EXCEPT ![p] = o]
    /\ arg' = [arg EXCEPT ![p] = a]
    /\ LET t == IF pc[p] = "idle" THEN <<>> ELSE trace[p]
       IN  IF idle # {}
           THEN /\ conn' = [conn EXCEPT ![p] = NextIdle]
                /\ idle' = TakeIdle(NextIdle)
                /\ trace' = [trace EXCEPT ![p] = Append(t, "checkout")]
                /\ tx' = [tx EXCEPT ![p] = [w |-> NoWrite, st |-> "open"]]
                /\ pc' = [pc EXCEPT ![p] = "body"]
                /\ UNCHANGED <<exc, raised, kind, overflow>>
           ELSE IF MustWait
           THEN /\ pc' = [pc EXCEPT ![p] = "wait"]
                /\ trace' = [trace EXCEPT ![p] = t]
                /\ UNCHANGED <<conn, exc, raised, tx, kind, idle, overflow>>
           ELSE \E ok \in BOOLEAN :
                IF ok
                THEN /\ overflow' = overflow + 1
                     /\ conn' = [conn EXCEPT ![p] = FreshConn]
                     /\ kind' = [kind EXCEPT ![FreshConn] = "pooled"]
                     /\ trace' = [trace EXCEPT ![p] = Append(t, "checkout")]
                     /\ tx' = [tx EXCEPT ![p] = [w |-> NoWrite, st |-> "open"]]
                     /\ pc' = [pc EXCEPT ![p] = "body"]
                     /\ UNCHANGED <<exc, raised, idle>>
                ELSE PooledExit(p, o, t, "DatabaseError", TRUE)
    /\ UNCHANGED <<ret, outv, called, waited, dbVars>>

\* The entry point refuses the page of search call a: search_individuals
\* is not called.
SearchRefused(p, a) ==
    /\ pc[p] = "idle"
    /\ ~Accepted(a)
    /\ op' = [op EXCEPT ![p] = "search_individuals"]
    /\ arg' = [arg EXCEPT ![p] = a]
    /\ exc' = [exc EXCEPT ![p] = Refusal(a)]
    /\ raised' = [raised EXCEPT ![p] = Refusal(a)]
    /\ trace' = [trace EXCEPT ![p] = <<>>]
    /\ pc' = [pc EXCEPT ![p] = "done"]
    /\ UNCHANGED <<conn, ret, outv, called, tx, waited, kind, poolVars, dbVars>>

\* The statement of a read runs on the connection of this call of
\* execute_raw_sql, which then gives the connection back and returns the
\* rows or re-raises.  The count query of search_individuals leaves
\* total_count and the operation goes on to its data query; every other
\* statement ends the operation.
ReadBody(p) ==
    /\ pc[p] = "body"
    /\ op[p] \in ReadOps
    /\ \E ok \in BOOLEAN :
        LET o == op[p]
            counting == o = "search_individuals" /\ Count(trace[p], "execute") = 0
            rows == IF ok /\ ~counting THEN Rows(o, arg[p], committed) ELSE <<>>
            \* the columns of the rows of an id read
            cols == IF o \in IdReadOps
                    THEN [k \in DOMAIN rows |-> committed[IdOf(rows[k])]]
                    ELSE <<>>
        IN  /\ PooledLeave(p, o, ((trace[p] \o Execute(ok)) \o rows) \o cols,
                           IF ok THEN "none" ELSE "DatabaseError", TRUE)
            /\ outv' = [outv EXCEPT ![p] =
                          IF ok /\ counting
                          THEN CountQuery(arg[p].filters, Present(committed))
                          ELSE @]
            /\ ret' = [ret EXCEPT ![p] = IF ok /\ ~counting THEN "rows" ELSE "none"]
            /\ pc' = [pc EXCEPT ![p] = IF ok /\ counting THEN "counted" ELSE "done"]
    /\ UNCHANGED <<op, arg, called, waited, dbVars>>

(* --------------------------- specifications --------------------------- *)

\* The CensusService operations, their transactions and the rows.
Next ==
    \E p \in Callers :
        \/ \E o \in OpsOf(p), a \in Ids \cup {0} : Connect(p, o, a)
        \/ Call(p, RecordsOf(p))
        \/ Complete(p)
        \/ Exit(p)
        \/ Reset(p)

Spec == Init /\ [][Next]_vars

\* Procedure calls run beside the pooled operations.
PoolDirectOps == {"get_household_demographics"}

\* The gateway's clients contending for connections.
PoolNext ==
    \E p \in Clients :
        \/ \E o \in PooledOps : PoolCheckout(p, o)
        \/ PoolWait(p)
        \/ PoolWake(p)
        \/ PoolTimeout(p)
        \/ PooledBody(p)
        \/ \E o \in PoolDirectOps : Connect(p, o, 0)
        \/ Call(p, {0})
        \/ Complete(p)
        \/ Exit(p)
        \/ Reset(p)

\* The rows play no part here: the table starts empty.
PoolInit == Init /\ seq = 1

PoolSpec == PoolInit /\ [][PoolNext]_vars

\* The writes that run beside the reads.
ReadWriteOps == {"create_individual", "delete_household"}
\* The first client runs the reads, the second the writes; the others call
\* execute_raw_sql and keep the pool busy.
ReadsOf(p) == IF p = 1 THEN ReadOps ELSE {}
WritesOf(p) == IF p = 2 THEN ReadWriteOps ELSE {}
RawOf(p) == IF p > 2 THEN {"execute_raw_sql"} ELSE {}

\* The ad-hoc reads and the search over the pool, beside writers.  Two
\* clients use the pool here, which has a connection for each: none waits.
ReadNext ==
    \E p \in Clients :
        \/ \E o \in ReadsOf(p) \ {"search_individuals"}, a \in IdArgs :
              ReadCheckout(p, o, a)
        \/ \E o \in ReadsOf(p) \cap {"search_individuals"} :
              ReadCheckout(p, o, DefaultSearch)
        \/ ReadBody(p)
        \/ \E o \in RawOf(p) : PoolCheckout(p, o)
        \/ PooledBody(p)
        \/ \E o \in WritesOf(p), a \in Ids \cup {0} : Connect(p, o, a)
        \/ Call(p, {0})
        \/ Complete(p)
        \/ Exit(p)
        \/ Reset(p)

ReadSpec == Init /\ [][ReadNext]_vars

\* The filters, pages and sizes the searches are called with: each field
\* left out or given, the region also as an empty string, the least age
\* also as 0; pages and sizes on both sides of their limits.
Filters ==
    {[region_name |-> r, district_name |-> d, sex |-> s, min_age |-> lo,
      max_age |-> hi, marital_status |-> m, education_level |-> e] :
        r \in {<<>>, <<"">>, <<"A">>}, d \in {<<>>, <<"D">>}, s \in {<<>>, <<"M">>},
        lo \in {<<>>, <<0>>, <<18>>}, hi \in {<<>>, <<65>>},
        m \in {<<>>, <<"Single">>}, e \in {<<>>, <<"Primary">>}}
Pages == {0, 1, 2, 3, 4}
Sizes == {0, 5, 10, 20, 101}

\* The calls of search_individuals an entry point can make.
SearchCalls ==
    {SearchCall(c[1], BuildFilters(c[1], c[2]), c[3], c[4]) :
        c \in {d \in Entries \X Filters \X Pages \X Sizes :
                  CanEnter(d[1], d[2], d[3], d[4])}}

\* An id read is called.
IdRead(p) ==
    /\ pc[p] = "idle"
    /\ \E o \in IdReadOps, a \in IdArgs : ReadCheckout(p, o, a)

\* An entry point calls search_individuals with one of the calls C.
SearchStart(p, C) ==
    /\ pc[p] = "idle"
    /\ \E a \in C : ReadCheckout(p, "search_individuals", a)

\* An entry point refuses the page of one of the calls C.
SearchRefusal(p, C) ==
    /\ pc[p] = "idle"
    /\ \E a \in C : SearchRefused(p, a)

\* search_individuals goes on from its count query to its data query.
SearchData(p) ==
    /\ pc[p] = "counted"
    /\ ReadCheckout(p, op[p], arg[p])

\* One client calls the search with every filter and page, and the id
\* reads, over a table nobody changes.
SearchNext ==
    \/ IdRead(1)
    \/ SearchStart(1, SearchCalls)
    \/ SearchRefusal(1, SearchCalls)
    \/ SearchData(1)
    \/ ReadBody(1)
    \/ Reset(1)

\* No individual has been inserted yet.
SearchInit == Init /\ seq = 1

SearchSpec == SearchInit /\ [][SearchNext]_vars

\* The searches that run while individuals are inserted: no filter or the
\* ages 18 to 65, first to last page.
AgeFilter == [NoFilter EXCEPT !["min_age"] = <<18>>, !["max_age"] = <<65>>]
InsertCalls ==
    {SearchCall("route", F, page, size) :
        F \in {NoFilter, AgeFilter}, page \in {1, 2, 3}, size \in {5, 10}}

\* A client inserts an individual, MaxInserts of them at most.
Insert(p) ==
    /\ seq <= MaxInserts
    /\ Connect(p, "create_individual", 0)

\* One client searches while a second one inserts individuals.
InsertNext ==
    \/ SearchStart(1, InsertCalls)
    \/ SearchData(1)
    \/ ReadBody(1)
    \/ Reset(1)
    \/ Insert(2)
    \/ Call(2, {0})
    \/ Complete(2)
    \/ Exit(2)
    \/ Reset(2)

InsertSpec == SearchInit /\ [][InsertNext]_vars

\* The caller of the create of process q, having got the id, reads it
\* back: process p runs get_geographical_info(id).
ReadBack(p, q) ==
    /\ pc[q] = "done" /\ ret[q] = "id"
    /\ ReadCheckout(p, "get_geographical_info", outv[q])

\* A caller creates a geographical unit and, once it has the id, reads
\* that id back: the second process runs the caller's read.
RoundTripNext ==
    \/ \E d \in GeoData : Connect(1, "create_geographical_info", d)
    \/ Call(1, {0})
    \/ Complete(1)
    \/ Exit(1)
    \/ Reset(1)
    \/ ReadBack(2, 1)
    \/ ReadBody(2)
    \/ Reset(2)

RoundTripSpec == Init /\ [][RoundTripNext]_vars

(* ------------------------------ properties ---------------------------- *)

Done(p) == pc[p] = "done"
\* Connections the operation of p obtained, and connections it gave back.
Acquisitions(p) == Count(trace[p], "connect") + Count(trace[p], "checkout")
Releases(p) == Count(trace[p], "close") + Count(trace[p], "release")
WriteOps == CreateOps \cup UpdateOps \cup DeleteOps
PooledConns == {c \in ConnIds : kind[c] = "pooled"}
OpenConns == {c \in ConnIds : kind[c] # "closed"}

\* C1: every procedure operation over get_connection that obtained a
\* connection has called exactly one of commit and rollback on it, before
\* the connection was closed, on every way out.
C1_ExactlyOneCommitOrRollback ==
    \A p \in Procs :
        (Done(p) /\ op[p] \in ServiceOps /\ Count(trace[p], "connect") = 1) =>
            /\ Count(trace[p], "commit") + Count(trace[p], "rollback") = 1
            /\ First(trace[p], "commit") + First(trace[p], "rollback")
                  < First(trace[p], "close")

\* C2: get_session_context (call_procedure runs inside it) calls commit
\* when its body returned, calls rollback and lets the same exception
\* through when its body raised, and closes the session as the last step,
\* after the commit or rollback.
C2_SessionCommitRollbackClose ==
    \A p \in Procs :
        (Done(p) /\ op[p] = "call_procedure") =>
            LET t == trace[p]
            IN  /\ raised[p] = "none" =>
                      /\ Count(t, "commit") + Count(t, "commit.failed") = 1
                      /\ First(t, "commit") + First(t, "commit.failed")
                            < Last(t, "session.close")
                /\ raised[p] # "none" =>
                      /\ Count(t, "commit") + Count(t, "commit.failed") = 0
                      /\ Count(t, "rollback") = 1
                      /\ First(t, "rollback") < Last(t, "session.close")
                      /\ exc[p] = raised[p]
                /\ Count(t, "session.close") = 1
                /\ t[Len(t)] = "session.close"

\* C2 witness: a call_procedure whose statement raised was rolled back,
\* closed, and the exception reached the caller.
C2_Witness ==
    \E p \in Procs :
        /\ Done(p) /\ op[p] = "call_procedure"
        /\ raised[p] = "DatabaseError" /\ exc[p] = "DatabaseError"
        /\ Count(trace[p], "execute") = 1 /\ Count(trace[p], "rollback") = 1

\* C3: a connection obtained through get_connection, get_session_context,
\* get_database_session or execute_raw_sql is given back exactly once on
\* every way out; it is never given back twice and never left behind; only
\* an operation that failed to obtain a connection gives none back.
C3_ReleasedExactlyOnce ==
    /\ \A p \in Procs :
          /\ Releases(p) <= Acquisitions(p)
          /\ Acquisitions(p) <= 1
          /\ Done(p) => Releases(p) = Acquisitions(p) /\ conn[p] = NoConn
          /\ (Done(p) /\ Releases(p) = 0) => exc[p] # "none"
    /\ \A c \in OpenConns \ idle :
          \E p \in Procs : conn[p] = c /\ pc[p] \notin {"idle", "done"}

\* C3 witness: both a pooled and a direct operation ended by a propagated
\* failure after obtaining a connection, and each gave it back once.
C3_Witness ==
    \E p, q \in Procs :
        /\ Done(p) /\ op[p] \in PooledOps /\ exc[p] # "none"
        /\ Count(trace[p], "checkout") = 1 /\ Count(trace[p], "release") = 1
        /\ Done(q) /\ op[q] \in ServiceOps /\ exc[q] # "none"
        /\ Count(trace[q], "connect") = 1 /\ Count(trace[q], "close") = 1

\* C4: an operation whose procedure raised after writing leaves nothing
\* of that write in the database: its transaction ends rolled back, never
\* committed, and a row its procedure inserted is absent.
C4_FailedWritesNotCommitted ==
    \A p \in Procs :
        (Done(p) /\ called[p] = "partial") =>
            /\ tx[p].w # NoWrite
            /\ tx[p].st = "rolledback"
            /\ op[p] \in CreateOps => committed[tx[p].w[1]] = "absent"

\* C4 witness: delete_geographical_info, whose procedure raised after
\* deleting the row, returned False and the row is still there.
C4_Witness ==
    \E p \in Procs :
        /\ Done(p) /\ op[p] = "delete_geographical_info"
        /\ called[p] = "partial" /\ ret[p] = "False"
        /\ tx[p].st = "rolledback"
        /\ committed[arg[p]] # "absent"

C7_ExclusiveOwnership ==
    \A p \in Procs :
        conn[p] # NoConn =>
            /\ \A q \in Procs \ {p} : conn[q] # conn[p]
            /\ conn[p] \notin idle
            /\ kind[conn[p]] # "closed"

\* C7 witness: two pooled operations and a procedure call each hold a
\* connection of their own at the same time.
C7_Witness ==
    \E p, q, r \in Procs :
        /\ p # q
        /\ pc[p] = "body" /\ op[p] \in PooledOps /\ conn[p] # NoConn
        /\ pc[q] = "body" /\ op[q] \in PooledOps /\ conn[q] # NoConn
        /\ pc[r] = "body" /\ op[r] \in ServiceOps /\ conn[r] # NoConn

\* C8: a create, update or delete whose stored procedure raised ends by
\* raising that failure to its caller, never by returning a value.
C8_ProcedureFailureRaised ==
    \A p \in Procs :
        (Done(p) /\ op[p] \in WriteOps /\ called[p] \in {"fail", "partial"}) =>
            exc[p] = "DatabaseError" /\ ret[p] = "none"

\* C9: the boolean an update or delete returns after its procedure ran is
\* the value of a boolean output variable bound to the procedure call, and
\* it is True only when the procedure located the target row.
C9_ReturnsBoundFlag ==
    \A p \in Procs :
        (Done(p) /\ op[p] \in UpdateOps \cup DeleteOps /\ called[p] = "ok"
              /\ ret[p] # "none") =>
            /\ OutVar(op[p]) = "bool"
            /\ ret[p] = (IF outv[p] = 1 THEN "True" ELSE "False")
            /\ ret[p] = "True" => tx[p].w # NoWrite

\* C10: a create, update or delete that obtained its connection has
\* called the stored procedure exactly once when it ends.
C10_ProcedureCalledOnce ==
    \A p \in Procs :
        (Done(p) /\ op[p] \in WriteOps /\ Count(trace[p], "connect") = 1) =>
            Count(trace[p], "callproc") = 1

\* The records the body appended to results, in the order it appended them.
Drained(p) == SelectSeq(trace[p], IsRecord)
\* How many arguments of kind k operation o passes to callproc.
ArgCount(o, k) == Count(CallArgs(o), k)

\* C18: a cursor report passes its output cursor as the last argument; when
\* it returns rows they are all the records of the cursor, in cursor order,
\* appended before the cursor was closed; when the procedure or the drain
\* raised, it returns nothing, whatever it had drained.
C18_CursorDrainedOrDiscarded ==
    \A p \in Procs :
        (Done(p) /\ op[p] \in ReportOps /\ called[p] # "none") =>
            /\ CallArgs(op[p])[Len(CallArgs(op[p]))] = "cursor"
            /\ ArgCount(op[p], "cursor") = 1
            /\ ret[p] = "rows" =>
                  /\ called[p] = "ok" /\ exc[p] = "none"
                  /\ Drained(p) = SubSeq(RecordNames, 1, outv[p])
                  /\ Count(trace[p], "result_cursor.close") = 1
                  /\ \A i \in DOMAIN trace[p] :
                        IsRecord(trace[p][i]) =>
                            i < First(trace[p], "result_cursor.close")
            /\ (called[p] # "ok" \/ Len(Drained(p)) < outv[p]) =>
                  ret[p] = "none" /\ exc[p] = "DatabaseError"
            /\ ret[p] \in {"rows", "none"}

\* C18 witness: a report whose drain failed after the first of its
\* records raised and returned nothing.
C18_Witness ==
    \E p \in Procs :
        /\ Done(p) /\ op[p] \in ReportOps /\ called[p] = "ok"
        /\ outv[p] = MaxRecords /\ Len(Drained(p)) = 1
        /\ ret[p] = "none" /\ exc[p] = "DatabaseError"

\* C19 (as claimed): a create that returned the id called the procedure,
\* then read the bound output value, then committed.
C19_ReadBeforeCommit ==
    \A p \in Procs :
        (Done(p) /\ op[p] \in CreateOps /\ ret[p] = "id") =>
            /\ First(trace[p], "callproc") < First(trace[p], "getvalue")
            /\ First(trace[p], "getvalue") < First(trace[p], "commit")

\* C19 (amended): a create binds one output variable as the last argument;
\* when it returns, it has called the procedure, then committed, then read
\* the bound value, each once, and the value is the id of the row the
\* procedure inserted, now committed; otherwise it raised.
C19_CommitBeforeRead ==
    \A p \in Procs :
        (Done(p) /\ op[p] \in CreateOps /\ called[p] # "none") =>
            /\ CallArgs(op[p])[Len(CallArgs(op[p]))] = "var"
            /\ ArgCount(op[p], "var") = 1
            /\ ret[p] = "id" =>
                  /\ Count(trace[p], "callproc") = 1
                  /\ Count(trace[p], "commit") = 1
                  /\ Count(trace[p], "getvalue") = 1
                  /\ First(trace[p], "callproc") < First(trace[p], "commit")
                  /\ First(trace[p], "commit") < First(trace[p], "getvalue")
                  /\ tx[p].w # NoWrite /\ outv[p] = tx[p].w[1]
                  /\ tx[p].st = "committed"
            /\ ret[p] # "id" => ret[p] = "none" /\ exc[p] = "DatabaseError"

\* C19 witness: create_household returned the id of the row it inserted.
C19_Witness ==
    \E p \in Procs :
        /\ Done(p) /\ op[p] = "create_household" /\ ret[p] = "id"
        /\ outv[p] \in Ids /\ committed[outv[p]] = "new"

\* The operation of p reported success to its caller.
ReportsSuccess(p) == ret[p] \in {"id", "True"}

\* C25: a create, update or delete that reported success (an id or True)
\* has committed its transaction before its connection was closed, so the
\* row its procedure wrote is in the committed table for every other
\* connection; delete_individual included.
C25_SuccessIsCommitted ==
    \A p \in Procs :
        (Done(p) /\ op[p] \in WriteOps /\ ReportsSuccess(p)) =>
            /\ tx[p].st = "committed"
            /\ Count(trace[p], "commit") = 1
            /\ First(trace[p], "commit") < First(trace[p], "close")
            /\ tx[p].w # NoWrite => committed[tx[p].w[1]] = tx[p].w[2]

\* The status of the response an update or delete route gives for a
\* service call that returned r or left with exception e: the route raises
\* 404 when the service returned a false value and 500 for any exception
\* other than its own HTTPException.
RouteStatus(r, e) ==
    IF e # "none" THEN 500
    ELSE IF r = "True" THEN 200
    ELSE 404
Response(p) == RouteStatus(ret[p], exc[p])

\* C24: an update or delete route answers not-found only when the
\* procedure ran and found no target row, and answers with a server error
\* whenever the procedure call failed in the database.
C24_NotFoundDistinctFromFailure ==
    \A p \in Procs :
        (Done(p) /\ op[p] \in UpdateOps \cup DeleteOps) =>
            /\ Response(p) = 404 => called[p] = "ok" /\ tx[p].w = NoWrite
            /\ called[p] \in {"fail", "partial"} => Response(p) = 500

Fetched(p) == SelectSeq(trace[p], IsRow)

\* The statements operation o sends when each of them succeeds.
Statements(o) == IF o = "search_individuals" THEN 2 ELSE 1

\* C20: a call of execute_raw_sql sends its statement at most once; when
\* the statement or the connection fails the failure reaches the caller of
\* the read built on it, unchanged, with no rows and no retry, and a
\* search_individuals whose count query failed sends no data query.
C20_RawSqlFailurePropagates ==
    \A p \in Procs :
        op[p] \in RawSqlOps =>
            /\ Count(trace[p], "execute") <= Count(trace[p], "checkout")
            /\ Count(trace[p], "execute") <= Statements(op[p])
            /\ Done(p) =>
                  /\ ret[p] = "rows" <=> exc[p] = "none"
                  /\ ret[p] = "rows" => Count(trace[p], "execute") = Statements(op[p])
                  /\ exc[p] # "none" =>
                        /\ exc[p] = raised[p]
                        /\ ret[p] = "none"
                        /\ Fetched(p) = <<>>
                  /\ (exc[p] # "none" /\ outv[p] = -1) =>
                        Count(trace[p], "execute") <= 1

\* C20 witness: a search_individuals whose count query raised ended with
\* the DatabaseError at its caller after one statement on one connection.
C20_Witness ==
    \E p \in Procs :
        /\ Done(p) /\ op[p] = "search_individuals"
        /\ exc[p] = "DatabaseError" /\ ret[p] = "none" /\ outv[p] = -1
        /\ Count(trace[p], "checkout") = 1 /\ Count(trace[p], "execute") = 1

\* C22: the statements of one read operation all run over one connection
\* and in one transaction: the operation checks out a connection at most
\* once, and a search_individuals that returned ran its count query and its
\* data query between that checkout and the one release.
C22_OneConnectionPerOperation ==
    \A p \in Procs :
        op[p] \in ReadOps =>
            /\ Count(trace[p], "checkout") <= 1
            /\ Count(trace[p], "release") <= 1
            /\ (Done(p) /\ op[p] = "search_individuals" /\ ret[p] = "rows") =>
                  /\ Count(trace[p], "execute") = 2
                  /\ Last(trace[p], "execute") < First(trace[p], "release")

\* How many rows page `page` of size `size` holds when n rows match.
PageLength(n, page, size) ==
    LET rest == n - Offset(page, size)
    IN  IF rest <= 0 THEN 0 ELSE IF rest < size THEN rest ELSE size

\* C26: the rows and the total_count one search_individuals call returns
\* reflect one state of the table, whatever writes are committed while it
\* runs: the page holds as many rows as a table of total_count matching
\* rows gives it.
C26_RowsConsistentWithTotal ==
    \A p \in Procs :
        (Done(p) /\ op[p] = "search_individuals" /\ ret[p] = "rows") =>
            Len(Fetched(p)) = PageLength(outv[p], arg[p].page, arg[p].size)

\* C28: an id read called with an id, whatever integer it is, returns
\* only records of that id; records of other ids are returned only when the
\* argument is left out.
C28_IdArgumentFilters ==
    \A p \in Procs :
        (Done(p) /\ op[p] \in IdReadOps /\ ret[p] = "rows" /\ arg[p] # NoId) =>
            \A i \in DOMAIN Fetched(p) :
                arg[p] \in Ids /\ Fetched(p)[i] = RowNames[arg[p]]

\* The call that closes cursor c.
CloseOf(c) == IF c = "cursor" THEN "cursor.close" ELSE "result_cursor.close"

\* C30: when an operation has ended, every cursor it opened (the call
\* cursor and, in a report, the result cursor) has been closed once, before
\* the connection was closed, whether it returned or raised;
\* delete_individual included.
C30_EveryCursorClosed ==
    \A p \in Procs :
        (Done(p) /\ op[p] \in ServiceOps) =>
            \A c \in {"cursor", "result_cursor"} :
                /\ Count(trace[p], CloseOf(c)) = Count(trace[p], c)
                /\ Count(trace[p], c) = 1 =>
                      /\ First(trace[p], c) < First(trace[p], CloseOf(c))
                      /\ First(trace[p], CloseOf(c)) < First(trace[p], "close")

(* search_individuals: conditions, count, pages *)

\* search_individuals has been called by process p and has got a
\* connection for its first statement.
Searching(p) == op[p] = "search_individuals" /\ Count(trace[p], "checkout") >= 1

\* The search of process p returned its page.
Searched(p) == Done(p) /\ op[p] = "search_individuals" /\ ret[p] = "rows"

\* C11 as stated: the WHERE clause of a search has exactly one condition
\* for every filter field the caller gave a value, an empty string and 0
\* included, and none for a field left out.
C11_ConditionPerSuppliedField ==
    \A p \in Procs :
        Searching(p) =>
            \A f \in FieldSet :
                Count(WhereConditions(arg[p].filters), Condition(f)) =
                    IF arg[p].filters[f] # <<>> THEN 1 ELSE 0

\* C11 (amended): the WHERE clause of a search has exactly one condition
\* for every present filter field and none for any other, where an age is
\* present when it is given (0 included) and every other field when it is
\* given and not the empty string.
C11_ConditionPerPresentField ==
    \A p \in Procs :
        Searching(p) =>
            LET F == arg[p].filters
                present == {f \in FieldSet :
                               /\ F[f] # <<>>
                               /\ f \in AgeFields \/ F[f][1] # ""}
            IN  /\ \A f \in FieldSet :
                      Count(WhereConditions(F), Condition(f)) =
                          IF f \in present THEN 1 ELSE 0
                /\ Len(WhereConditions(F)) = Cardinality(present)
                /\ DOMAIN FilterParams(F) = present

\* C11 witness: a search given the least age 0 and the empty string as
\* region returned with the age condition alone.
C11_Witness ==
    \E p \in Procs :
        /\ Searched(p)
        /\ arg[p].filters["region_name"] = <<"">>
        /\ arg[p].filters["min_age"] = <<0>>
        /\ WhereConditions(arg[p].filters) = <<"i.age >= :min_age">>

\* The least of two numbers.
Min(a, b) == IF a < b THEN a ELSE b

\* C12: a search with the empty filter uses the predicate 1=1, its
\* total_count is the number of rows of the joined relation, and the rows
\* it returns are the rows of the relation in the page window, in id order.
C12_EmptyFilterSelectsAll ==
    \A p \in Procs :
        (Searching(p) /\ arg[p].filters = NoFilter) =>
            /\ CountSql(arg[p].filters) = <<"1=1">>
            /\ DataSql(arg[p].filters) = <<"1=1">>
            /\ outv[p] # -1 => outv[p] = Cardinality(Present(committed))
            /\ Searched(p) =>
                  Fetched(p) =
                      SubSeq(RowNames, (arg[p].page - 1) * arg[p].size + 1,
                             Min(arg[p].page * arg[p].size,
                                 Cardinality(Present(committed))))

\* C12 witness: a search with the empty filter returned the first five of
\* all the rows and their number as total_count.
C12_Witness ==
    \E p \in Procs :
        /\ Searched(p) /\ arg[p].filters = NoFilter
        /\ arg[p].page = 1 /\ arg[p].size = 5
        /\ outv[p] = MaxRows
        /\ Fetched(p) = SubSeq(RowNames, 1, 5)

\* C13: the count query of a search has the predicate of its data query
\* and the same bound filter values, so that over an unchanged table
\* total_count is the number of rows the data query's predicate matches,
\* whatever the page.
C13_CountMatchesDataPredicate ==
    \A p \in Procs :
        (Searching(p) /\ outv[p] # -1) =>
            LET F == arg[p].filters
                b == DataParams(F, arg[p].page, arg[p].size)
            IN  /\ CountSql(F) = DataSql(F)
                /\ DOMAIN b = DOMAIN FilterParams(F) \cup {"start_row", "end_row"}
                /\ \A k \in DOMAIN FilterParams(F) : b[k] = FilterParams(F)[k]
                /\ outv[p] = Cardinality(Select(Present(committed), DataSql(F), b))

\* C13 witness: the third page of five of the individuals aged 18 to 65
\* came with the total_count 12 of all that match.
C13_Witness ==
    \E p \in Procs :
        /\ Searched(p) /\ arg[p].filters = AgeFilter
        /\ arg[p].page = 3 /\ arg[p].size = 5
        /\ outv[p] = 12 /\ Len(Fetched(p)) = 2

\* C14: the data query of a search on page `page` with size `size` is
\* bound to the rows (page-1)*size+1 to (page-1)*size+size of the matching
\* rows by id, both included, and returns just the rows there: page 1 of
\* 20 is bound to rows 1 to 20, page 3 of 10 to rows 21 to 30.
C14_RowRange ==
    \A p \in Procs :
        Searching(p) =>
            LET F == arg[p].filters
                page == arg[p].page
                size == arg[p].size
                b == DataParams(F, page, size)
                M == Select(Present(committed), DataSql(F), FilterParams(F))
                rank(i) == Cardinality({j \in M : j <= i})
            IN  /\ b["start_row"] = (page - 1) * size + 1
                /\ b["end_row"] = (page - 1) * size + size
                /\ (page = 1 /\ size = 20) => (b["start_row"] = 1 /\ b["end_row"] = 20)
                /\ (page = 3 /\ size = 10) => (b["start_row"] = 21 /\ b["end_row"] = 30)
                /\ Searched(p) =>
                      \A i \in Present(committed) :
                          Count(Fetched(p), RowNames[i]) =
                              IF /\ i \in M
                                 /\ rank(i) >= (page - 1) * size + 1
                                 /\ rank(i) <= (page - 1) * size + size
                              THEN 1 ELSE 0

\* C14 witness: the second page of five of all rows holds the rows 6 to
\* 10.
C14_Witness ==
    \E p \in Procs :
        /\ Searched(p) /\ arg[p].filters = NoFilter
        /\ arg[p].page = 2 /\ arg[p].size = 5
        /\ DataParams(arg[p].filters, 2, 5)["start_row"] = 6
        /\ DataParams(arg[p].filters, 2, 5)["end_row"] = 10
        /\ Fetched(p) = SubSeq(RowNames, 6, 10)

\* C15: no statement of a search runs with a page below 1 or a size
\* outside 1..100: whichever entry point is given such a page, the search
\* ends with an error and without having asked for a connection or sent
\* the count query or the data query.
C15_InvalidPageRejected ==
    \A p \in Procs :
        op[p] = "search_individuals" =>
            LET valid == /\ arg[p].page >= 1
                         /\ arg[p].size >= 1
                         /\ arg[p].size <= 100
            IN  /\ trace[p] # <<>> => valid
                /\ (Done(p) /\ ~valid) =>
                      /\ exc[p] \in {"RequestValidationError", "ValidationError"}
                      /\ raised[p] = exc[p]
                      /\ ret[p] = "none"
                      /\ outv[p] = -1
                      /\ Count(trace[p], "checkout") = 0
                      /\ Count(trace[p], "execute") = 0

\* C15 witness: the CLI was given page 0 and the search ended with the
\* ValidationError of PaginationParams before any query.
C15_Witness ==
    \E p \in Procs :
        /\ Done(p) /\ op[p] = "search_individuals"
        /\ arg[p].entry = "cli" /\ arg[p].page = 0 /\ arg[p].size = 20
        /\ exc[p] = "ValidationError"
        /\ trace[p] = <<>>

\* C16: over an unchanged table with N rows matching the filter, a search
\* on page `page` with size `size` returns min(size, max(0, N -
\* (page-1)*size)) rows and total_count = N, and the page count the route
\* and the CLI derive from them is the least number of pages of that size
\* that hold N rows.
C16_PageLengthAndCount ==
    \A p \in Procs :
        Searched(p) =>
            LET F == arg[p].filters
                size == arg[p].size
                N == Cardinality(Select(Present(committed),
                                        WhereClause(WhereConditions(F)),
                                        FilterParams(F)))
                rest == N - (arg[p].page - 1) * size
                pages == PageCount(outv[p], size)
            IN  /\ Len(Fetched(p)) = Min(size, IF rest > 0 THEN rest ELSE 0)
                /\ outv[p] = N
                /\ arg[p].entry \in {"route", "cli"} =>
                      /\ pages * size >= N
                      /\ (pages - 1) * size < N

\* C16 witness: of the 12 individuals aged 18 to 65 the first page of
\* five came back with 5 rows, total_count 12 and 3 pages.
C16_Witness ==
    \E p \in Procs :
        /\ Searched(p) /\ arg[p].entry = "route"
        /\ arg[p].filters = AgeFilter
        /\ arg[p].page = 1 /\ arg[p].size = 5
        /\ Len(Fetched(p)) = 5
        /\ outv[p] = 12
        /\ PageCount(outv[p], arg[p].size) = 3

\* C17: individuals inserted with ids above every id there was do not
\* change a page of a search that was full before: the search returns the
\* rows that page held over the table as it was, whenever the inserts are
\* committed, and an inserted row that matches comes after every row that
\* was there.
C17_InsertKeepsFullPages ==
    \A p \in Procs :
        Searched(p) =>
            LET F == arg[p].filters
                first == (arg[p].page - 1) * arg[p].size
                M0 == Select(SeedRows, DataSql(F), FilterParams(F))
                rank0(i) == Cardinality({j \in M0 : j <= i})
            IN  /\ Cardinality(M0) - first >= arg[p].size =>
                      /\ Len(Fetched(p)) = arg[p].size
                      /\ \A k \in DOMAIN Fetched(p) :
                            /\ IdOf(Fetched(p)[k]) \in M0
                            /\ rank0(IdOf(Fetched(p)[k])) = first + k
                /\ \A k \in DOMAIN Fetched(p) :
                      IdOf(Fetched(p)[k]) \notin SeedRows =>
                          /\ first + k > Cardinality(M0)
                          /\ \A j \in 1..(k - 1) :
                                IdOf(Fetched(p)[j]) < IdOf(Fetched(p)[k])

\* C17 witness: an individual was inserted before the count query, which
\* counted it, and the second page of five still holds the rows 6 to 10.
C17_Witness ==
    \E p \in Procs :
        /\ Searched(p) /\ arg[p].filters = NoFilter
        /\ arg[p].page = 2 /\ arg[p].size = 5
        /\ outv[p] = MaxRows + 1
        /\ Fetched(p) = SubSeq(RowNames, 6, 10)

\* C23: the text of the statement a read builds depends on which of its
\* arguments are given and not on their values: a search with any other
\* values for the same present filter fields, and an id read with any
\* other id, build the same text.
C23_SqlTextIndependentOfValues ==
    \A p \in Procs :
        /\ Searching(p) =>
              \A G \in Filters :
                  ({f \in FieldSet : HasCondition(f, G[f])} =
                   {f \in FieldSet : HasCondition(f, arg[p].filters[f])}) =>
                      /\ CountSql(G) = CountSql(arg[p].filters)
                      /\ DataSql(G) = DataSql(arg[p].filters)
        /\ (op[p] \in IdReadOps /\ Count(trace[p], "checkout") >= 1
                /\ arg[p] # NoId) =>
              \A a \in IdArgs \ {NoId} : IdSql(op[p], a) = IdSql(op[p], arg[p])

\* The rows search_individuals returns for page k of size s under filters
\* F over the table db.
PageOf(F, k, s, db) == Rows("search_individuals", SearchCall("route", F, k, s), db)

\* The pages 1 to k one after the other.
RECURSIVE PagesUpTo(_, _, _, _)
PagesUpTo(F, k, s, db) ==
    IF k = 0 THEN <<>> ELSE PagesUpTo(F, k - 1, s, db) \o PageOf(F, k, s, db)

\* C27: over an unchanged table with N rows matching the filter, the pages
\* 1 to ceil(N/s) of size s share no row, one after the other they are the
\* matching rows by ascending id, each once, and a page beyond them is
\* empty.
C27_PagesPartitionMatches ==
    \A p \in Procs :
        Searched(p) =>
            LET F == arg[p].filters
                s == arg[p].size
                M == Select(Present(committed), WhereClause(WhereConditions(F)),
                            FilterParams(F))
                N == Cardinality(M)
                n == CHOOSE k \in 0..N : k * s >= N /\ (k - 1) * s < N
                nth(k) == CHOOSE i \in M : Cardinality({j \in M : j < i}) = k - 1
                rows(k) == {PageOf(F, k, s, committed)[i] :
                               i \in DOMAIN PageOf(F, k, s, committed)}
            IN  /\ Fetched(p) = PageOf(F, arg[p].page, s, committed)
                /\ PagesUpTo(F, n, s, committed) = [k \in 1..N |-> RowNames[nth(k)]]
                /\ \A j, k \in 1..n : j # k => rows(j) \cap rows(k) = {}
                /\ arg[p].page > n => Fetched(p) = <<>>

\* C27 witness: the last of the three pages of five of the 12 individuals
\* aged 18 to 65 holds the two rows the first two pages left.
C27_Witness ==
    \E p \in Procs :
        /\ Searched(p) /\ arg[p].filters = AgeFilter
        /\ arg[p].page = 3 /\ arg[p].size = 5
        /\ Fetched(p) = <<RowNames[13], RowNames[14]>>
        /\ Len(PagesUpTo(AgeFilter, 3, 5, committed)) = 12

\* The columns of the rows an id read returned to process p.
IsRowValue(e) == e \in {"new", "new.kumasi", "new.other", "updated"}
Columns(p) == SelectSeq(trace[p], IsRowValue)

====
